---------------------------- MODULE Spec2Model ----------------------------
(***************************************************************************)
(* State-machine model of the MCP example servers of mcp-builder-rust:     *)
(* the elicitation, progress and sampling servers and the calculator       *)
(* servers (basic, http, macros_demo).                                     *)
(* Every tool handler is an async fn; an action of the model is the code   *)
(* a handler runs between two of its .await suspension points.             *)
(***************************************************************************)
EXTENDS Integers, Sequences, FiniteSets, TLC

(* ----------------------------- bounds --------------------------------- *)

\* number of invocation slots (concurrently running tool calls)
NumInv == 2
\* largest step count given to process_large_file / batch_operation, and
\* largest number of words given to analyze_text
MaxSteps == 2
\* largest size_mb given to download_data
MaxSize == 1

Inv == 1..NumInv

(* ------------------------- program constants --------------------------- *)

\* download_data: let chunks = 20
DownloadChunks == 20
\* the length of the token prefix the handlers slice off: &token[..7]
PrefixLen == 7

(* ------------------------------ servers -------------------------------- *)

Servers == {"elicitation", "progress", "sampling"}

ElicitationTools ==
    {"github_login", "github_logout", "github_status", "delete_data",
     "send_email", "get_user_profile", "clear_profile"}

ProgressTools ==
    {"process_large_file", "analyze_text", "batch_operation",
     "download_data", "get_stats"}

SamplingTools ==
    {"analyze_with_ai", "generate_summary", "translate_text",
     "answer_question", "compare_options", "sampling_get_stats"}

ServerOf(t) ==
    IF t \in ElicitationTools THEN "elicitation"
    ELSE IF t \in ProgressTools THEN "progress"
    ELSE "sampling"

(* --------------------------- input values ------------------------------ *)

\* Strings the user can type as a token, as sequences of characters.
TokGhp   == <<"g","h","p","_","a","b","c","d">>
TokPat   == <<"g","i","t","h","u","b","_","p","a","t","_","1">>
TokShort == <<"g","h","p","_","a","b">>
TokBad   == <<"t","o","k","e","n","1","2","3">>
Tokens   == {TokGhp, TokPat, TokShort, TokBad}

PrefixGhp == <<"g","h","p","_">>
PrefixPat == <<"g","i","t","h","u","b","_","p","a","t","_">>

NoToken == <<>>
NoProfile == [name |-> "", email |-> ""]
Profiles == {[name |-> "alice", email |-> "alice@example.com"],
             [name |-> "bob", email |-> "bob@example.com"]}

Confirmations == {"DELETE", "delete"}
Subjects == {"", "Hello"}

(* --------------------------- pure helpers ------------------------------ *)

\* str::starts_with
StartsWith(s, p) == Len(s) >= Len(p) /\ SubSeq(s, 1, Len(p)) = p

\* the format check of github_login
ValidTokenFormat(tok) == StartsWith(tok, PrefixGhp) \/ StartsWith(tok, PrefixPat)

\* &t[..7] panics when the string is shorter than 7 bytes
CanSlicePrefix(tok) == Len(tok) >= PrefixLen
TokenPrefix(tok) == SubSeq(tok, 1, PrefixLen)

\* A result envelope.  kind is "success", an error kind, or "panic" for a
\* handler that aborted; suggestion tells whether the error data carries a
\* "suggestion" field.
Result(kind, status, detail, suggestion) ==
    [kind |-> kind, status |-> status, detail |-> detail,
     suggestion |-> suggestion, n |-> 0]

NoResult == Result("none", "", <<>>, FALSE)
Success(status, detail) == Result("success", status, detail, FALSE)
SuccessN(status, n) == [Success(status, <<>>) EXCEPT !.n = n]
InternalError(what) == Result("InternalError", what, <<>>, FALSE)
InvalidParams(what, suggestion) == Result("InvalidParams", what, <<>>, suggestion)
Panicked == Result("panic", "", <<>>, FALSE)

\* What context.peer.elicit::<T>(..).await can yield: Ok(Some(v)), Ok(None),
\* Err(e).  Once the connection is closed only Err is left.
ElicitOutcomes(V, dflt, isClosed) ==
    IF isClosed THEN {[tag |-> "err", val |-> dflt]}
    ELSE [tag : {"some"}, val : V] \cup [tag : {"none", "err"}, val : {dflt}]

(* ------------- calculator servers: basic, http, macros_demo ------------ *)

CalcServers == {"basic", "http", "macros"}

\* The client sessions of a running server: a stdio server has one, the HTTP
\* server serves two.
Sessions == {1, 2}

\* basic_server with the #[tool] attribute left off echo
BasicTools_EchoNotRegistered ==
    {"calculator_add", "calculator_subtract", "calculator_multiply",
     "calculator_divide", "get_stats"}

\* the functions carrying #[tool] and #[prompt] in each server
BasicTools ==
    {"calculator_add", "calculator_subtract", "calculator_multiply",
     "calculator_divide", "echo", "get_stats"}
BasicPrompts == {"calculation_helper"}

HttpTools ==
    {"calculator_add", "calculator_subtract", "calculator_multiply",
     "calculator_divide", "echo", "get_stats"}
HttpPrompts == {"calculation_helper"}

MacrosTools ==
    {"add", "subtract", "multiply", "divide", "increment", "get_counter",
     "reset_counter", "echo", "get_stats"}
MacrosPrompts == {"greeting", "code_review", "writing_assistant", "help"}

\* a server keeping its tools and its prompts in one registry
DeclaredTools_SharedNamespace(s) ==
    CASE s = "basic" -> BasicTools \cup BasicPrompts
      [] s = "http" -> HttpTools \cup HttpPrompts
      [] s = "macros" -> MacrosTools \cup MacrosPrompts
      [] OTHER -> {}

DeclaredTools(s) ==
    CASE s = "basic" -> BasicTools
      [] s = "http" -> HttpTools
      [] s = "macros" -> MacrosTools
      [] OTHER -> {}

DeclaredPrompts(s) ==
    CASE s = "basic" -> BasicPrompts
      [] s = "http" -> HttpPrompts
      [] s = "macros" -> MacrosPrompts
      [] OTHER -> {}

\* Self::tool_router() and Self::prompt_router(): one route per declared
\* function, keyed by its name
NewRouters(s) == [tools |-> DeclaredTools(s), prompts |-> DeclaredPrompts(s)]

\* ToolRouter::list_all / PromptRouter::list_all and has_route
list_all(r) == r
has_route(r, name) == name \in r

\* ServerState::default()
NewState == [operation_count |-> 0, counter |-> 0, calc_count |-> 0]

\* A JSON value of the raw arguments: a number, a string, or no such key.
Num(v) == [kind |-> "number", val |-> v]
Str == [kind |-> "string", val |-> 0]
Missing == [kind |-> "missing", val |-> 0]

\* the numbers callers send as first and as second operand
FirstOperands == {0, 15}
SecondOperands == {0, 27}

Methods == {"tools/call", "prompts/get"}

\* the raw arguments of a request: the numbers a, b (the arithmetic tools),
\* amount (increment) and repeat (echo), and keys, the names of the other
\* arguments supplied (strings and arrays, which the handlers only copy)
NoArguments ==
    [a |-> Missing, b |-> Missing, amount |-> Missing, repeat |-> Missing,
     keys |-> {}]

\* a request: the session it arrives on, its method and its raw arguments
NoRequest ==
    [session |-> 0, method |-> "none", a |-> Missing, b |-> Missing,
     amount |-> Missing, repeat |-> Missing, keys |-> {}]
Request(k, m, x) ==
    [session |-> k, method |-> m, a |-> x.a, b |-> x.b, amount |-> x.amount,
     repeat |-> x.repeat, keys |-> x.keys]

\* the message the callers of echo send
Message == "Hello from MCP client!"

AddTools == {"calculator_add", "add"}
SubtractTools == {"calculator_subtract", "subtract"}
MultiplyTools == {"calculator_multiply", "multiply"}
DivideTools == {"calculator_divide", "divide"}
ArithmeticTools == AddTools \cup SubtractTools \cup MultiplyTools \cup DivideTools

\* the operation name a tool reports, and the sign in its text
Operation(t) ==
    CASE t \in AddTools -> "add"
      [] t \in SubtractTools -> "subtract"
      [] t \in MultiplyTools -> "multiply"
      [] OTHER -> "divide"

Sign(t) ==
    CASE t \in AddTools -> "+"
      [] t \in SubtractTools -> "-"
      [] t \in MultiplyTools -> "×"
      [] OTHER -> "÷"

\* format!("{}", x) of an f64 holding an integer: its decimal digits
Digit(d) ==
    CASE d = 0 -> "0" [] d = 1 -> "1" [] d = 2 -> "2" [] d = 3 -> "3"
      [] d = 4 -> "4" [] d = 5 -> "5" [] d = 6 -> "6" [] d = 7 -> "7"
      [] d = 8 -> "8" [] OTHER -> "9"

RECURSIVE Digits(_)
Digits(x) ==
    IF x < 10 THEN <<Digit(x)>> ELSE Append(Digits(x \div 10), Digit(x % 10))

Display(x) == IF x < 0 THEN <<"-">> \o Digits(-x) ELSE Digits(x)

(* ------------------------------ state ---------------------------------- *)

VARIABLES
    pc,              \* position of each invocation in its handler
    tool,            \* the tool an invocation runs
    arg,             \* its numeric parameter (chunks, items, words, size_mb)
    subject,         \* send_email: params.subject
    lock,            \* per server: the invocation holding state.lock(), or 0
    closed,          \* per server: the connection has been torn down
    github_token,    \* ServerState.github_token (NoToken = None)
    user_profile,    \* ServerState.user_profile (NoProfile = None)
    operation_count, \* progress server ServerState.operation_count
    sampling_count,  \* sampling server ServerState.sampling_count
    loop_i,          \* the loop variable i of a progress handler
    events,          \* progress events each invocation has sent, in order
    peerReqs,        \* elicit / createMessage requests each invocation issued
    result,          \* the result envelope of a finished invocation
    entry,           \* history: the state record an invocation found when it
                     \* took the lock
    cut,             \* history: the invocation was suspended in a peer request
                     \* when the connection was torn down
    reply,           \* history: how the invocation's peer request resolved
    process,         \* the calculator server binary that is running
    sessions,        \* the client sessions the running server serves
    router,          \* the tool_router and prompt_router built by new()
    state,           \* per session: the ServerState behind self.state
    guard,           \* per session: the invocation holding state.lock(), or 0
    request          \* the request an invocation of a calculator server runs

vars == <<pc, tool, arg, subject, lock, closed, github_token, user_profile,
          operation_count, sampling_count, loop_i, events, peerReqs, result,
          entry, cut, reply, process, sessions, router, state, guard,
          request>>

sessionVars == <<github_token, user_profile, operation_count, sampling_count>>
progressVars == <<loop_i, events>>
historyVars == <<entry, cut, reply>>
calcVars == <<process, sessions, router, state, guard, request>>

StateRecord == [github_token |-> github_token, user_profile |-> user_profile]

Init ==
    /\ pc = [i \in Inv |-> "idle"]
    /\ tool = [i \in Inv |-> "none"]
    /\ arg = [i \in Inv |-> 0]
    /\ subject = [i \in Inv |-> ""]
    /\ lock = [s \in Servers |-> 0]
    /\ closed = [s \in Servers |-> FALSE]
    /\ github_token = NoToken
    /\ user_profile = NoProfile
    /\ operation_count = 0
    /\ sampling_count = 0
    /\ loop_i = [i \in Inv |-> 0]
    /\ events = [i \in Inv |-> <<>>]
    /\ peerReqs = [i \in Inv |-> 0]
    /\ result = [i \in Inv |-> NoResult]
    /\ entry = [i \in Inv |-> [github_token |-> NoToken, user_profile |-> NoProfile]]
    /\ cut = [i \in Inv |-> FALSE]
    /\ reply = [i \in Inv |-> "pending"]
    /\ process = "none"
    /\ sessions = {}
    /\ router = NewRouters("none")
    /\ state = [k \in Sessions |-> NewState]
    /\ guard = [k \in Sessions |-> 0]
    /\ request = [i \in Inv |-> NoRequest]

(* ------------------------ steps shared by handlers --------------------- *)

\* The dispatcher starts the handler of tool t in slot i.  Slots are
\* interchangeable, so they are filled in order.
Invoke(i, t, n, subj) ==
    /\ pc[i] = "idle"
    /\ \A j \in Inv : j < i => pc[j] # "idle"
    /\ ~closed[ServerOf(t)]
    /\ pc' = [pc EXCEPT ![i] = "start"]
    /\ tool' = [tool EXCEPT ![i] = t]
    /\ arg' = [arg EXCEPT ![i] = n]
    /\ subject' = [subject EXCEPT ![i] = subj]
    /\ UNCHANGED <<calcVars, lock, closed, sessionVars, progressVars, peerReqs, result,
                   historyVars>>

\* The handler returns r; a MutexGuard it holds is dropped (also when the
\* handler unwinds from a panic: tokio's Mutex is not poisoned).
Return(i, r) ==
    /\ pc' = [pc EXCEPT ![i] = "done"]
    /\ result' = [result EXCEPT ![i] = r]
    /\ lock' = [s \in Servers |-> IF lock[s] = i THEN 0 ELSE lock[s]]

\* a lock that is handed out without waiting for its holder to release it
AcquireLock_NoWait(i) ==
    lock' = [lock EXCEPT ![ServerOf(tool[i])] = i]

\* self.state.lock().await
AcquireLock(i) ==
    /\ lock[ServerOf(tool[i])] = 0
    /\ lock' = [lock EXCEPT ![ServerOf(tool[i])] = i]

\* The caller tears the connection of server s down.
CloseConnection(s) ==
    /\ ~closed[s]
    /\ \E i \in Inv : tool[i] # "none" /\ ServerOf(tool[i]) = s
    /\ closed' = [closed EXCEPT ![s] = TRUE]
    /\ cut' = [i \in Inv |->
                 cut[i] \/ (ServerOf(tool[i]) = s /\ tool[i] # "none"
                            /\ pc[i] \in {"elicit", "create_message"})]
    /\ UNCHANGED <<calcVars, pc, tool, arg, subject, lock, sessionVars, progressVars,
                   peerReqs, result, entry, reply>>

\* Handlers whose first statement takes the state lock (directly, or through
\* increment_operation_count / increment_sampling_count).
LockFirstTools ==
    (ElicitationTools \ {"delete_data", "send_email"})
        \cup ProgressTools \cup SamplingTools

\* let mut state = self.state.lock().await;
Lock(i) ==
    /\ pc[i] = "start"
    /\ tool[i] \in LockFirstTools
    /\ AcquireLock(i)
    /\ pc' = [pc EXCEPT ![i] = "locked"]
    /\ entry' = [entry EXCEPT ![i] = StateRecord]
    /\ UNCHANGED <<calcVars, tool, arg, subject, closed, sessionVars, progressVars,
                   peerReqs, result, cut, reply>>

\* The handler suspends in context.peer.elicit(..).await, keeping whatever
\* it holds.
IssueElicit(i) ==
    /\ pc' = [pc EXCEPT ![i] = "elicit"]
    /\ peerReqs' = [peerReqs EXCEPT ![i] = @ + 1]
    /\ UNCHANGED <<lock, result>>

(* ------------------------- elicitation server -------------------------- *)

\* github_login, cache hit: the envelope built from the cached token
LoginCachedResult(tok) ==
    IF CanSlicePrefix(tok)
    THEN Success("already_authenticated", TokenPrefix(tok))
    ELSE Panicked

\* github_login before the elicitation: the cache check
LoginCheck(i) ==
    /\ pc[i] = "locked"
    /\ tool[i] = "github_login"
    /\ IF github_token # NoToken
       THEN /\ Return(i, LoginCachedResult(github_token))
            /\ UNCHANGED peerReqs
       ELSE IssueElicit(i)
    /\ UNCHANGED <<calcVars, tool, arg, subject, closed, sessionVars, progressVars,
                   historyVars>>

\* github_login storing the elicited token before it checks the format
LoginTokenAfter_StoreFirst(o, old) == IF o.tag = "some" THEN o.val ELSE old

\* github_login: the token stored for elicit outcome o, old being the cached one
LoginTokenAfter(o, old) ==
    IF o.tag = "some" /\ ValidTokenFormat(o.val) THEN o.val ELSE old

\* github_login: the envelope for elicit outcome o
LoginResult(o) ==
    CASE o.tag = "err" -> InternalError("Failed to elicit token")
      [] o.tag = "none" -> InvalidParams("GitHub token is required for login", TRUE)
      [] o.tag = "some" /\ ~ValidTokenFormat(o.val) ->
             InvalidParams("Invalid token format", TRUE)
      [] o.tag = "some" /\ ValidTokenFormat(o.val) /\ ~CanSlicePrefix(o.val) ->
             Panicked
      [] OTHER -> Success("authenticated", TokenPrefix(o.val))

\* github_login after the elicitation resolved
LoginResume(i) ==
    /\ pc[i] = "elicit"
    /\ tool[i] = "github_login"
    /\ \E o \in ElicitOutcomes(Tokens, NoToken, closed["elicitation"]) :
          /\ reply' = [reply EXCEPT ![i] = o.tag]
          /\ github_token' = LoginTokenAfter(o, github_token)
          /\ Return(i, LoginResult(o))
    /\ UNCHANGED <<calcVars, tool, arg, subject, closed, user_profile, operation_count,
                   sampling_count, progressVars, peerReqs, entry, cut>>

\* github_logout
Logout(i) ==
    /\ pc[i] = "locked"
    /\ tool[i] = "github_logout"
    /\ github_token' = NoToken
    /\ Return(i, Success("Logged out from GitHub", <<>>))
    /\ UNCHANGED <<calcVars, tool, arg, subject, closed, user_profile, operation_count,
                   sampling_count, progressVars, peerReqs, historyVars>>

\* github_status: the envelope for the cached token
StatusResult(tok) ==
    IF tok = NoToken THEN Success("not_authenticated", <<"n","o","n","e">>)
    ELSE IF CanSlicePrefix(tok) THEN Success("authenticated", TokenPrefix(tok))
    ELSE Panicked

\* github_status
Status(i) ==
    /\ pc[i] = "locked"
    /\ tool[i] = "github_status"
    /\ Return(i, StatusResult(github_token))
    /\ UNCHANGED <<calcVars, tool, arg, subject, closed, sessionVars, progressVars,
                   peerReqs, historyVars>>

\* delete_data and send_email take no lock: their first step
DeleteStart(i) ==
    /\ pc[i] = "start"
    /\ tool[i] = "delete_data"
    /\ IssueElicit(i)
    /\ UNCHANGED <<calcVars, tool, arg, subject, closed, sessionVars, progressVars,
                   historyVars>>

\* delete_data treating a declined elicitation like a wrong confirmation
DeleteResult_DeclineFails(o) ==
    CASE o.tag = "err" -> InternalError("Failed to elicit confirmation")
      [] o.tag = "some" /\ o.val = "DELETE" -> Success("deleted", <<>>)
      [] OTHER -> InvalidParams("Invalid confirmation", FALSE)

\* delete_data: the envelope for elicit outcome o
DeleteResult(o) ==
    CASE o.tag = "err" -> InternalError("Failed to elicit confirmation")
      [] o.tag = "some" /\ o.val = "DELETE" -> Success("deleted", <<>>)
      [] o.tag = "some" /\ o.val # "DELETE" ->
             InvalidParams("Invalid confirmation", FALSE)
      [] OTHER -> Success("cancelled", <<>>)

\* delete_data after the elicitation resolved
DeleteResume(i) ==
    /\ pc[i] = "elicit"
    /\ tool[i] = "delete_data"
    /\ \E o \in ElicitOutcomes(Confirmations, "", closed["elicitation"]) :
          /\ reply' = [reply EXCEPT ![i] = o.tag]
          /\ Return(i, DeleteResult(o))
    /\ UNCHANGED <<calcVars, tool, arg, subject, closed, sessionVars, progressVars,
                   peerReqs, entry, cut>>

\* send_email: elicits the subject when params.subject is empty
SendEmailStart(i) ==
    /\ pc[i] = "start"
    /\ tool[i] = "send_email"
    /\ IF subject[i] = ""
       THEN IssueElicit(i)
       ELSE /\ Return(i, Success("sent", <<subject[i]>>))
            /\ UNCHANGED peerReqs
    /\ UNCHANGED <<calcVars, tool, arg, subject, closed, sessionVars, progressVars,
                   historyVars>>

\* send_email taking whatever subject the user supplies, the empty one too
SendEmailResult_EmptyAccepted(o) ==
    CASE o.tag = "err" -> InternalError("Failed to elicit subject")
      [] o.tag = "some" -> Success("sent", <<o.val>>)
      [] OTHER -> InvalidParams("Email subject is required", FALSE)

\* send_email: the envelope for elicit outcome o
SendEmailResult(o) ==
    CASE o.tag = "err" -> InternalError("Failed to elicit subject")
      [] o.tag = "some" /\ o.val # "" -> Success("sent", <<o.val>>)
      [] OTHER -> InvalidParams("Email subject is required", FALSE)

\* send_email after the elicitation resolved
SendEmailResume(i) ==
    /\ pc[i] = "elicit"
    /\ tool[i] = "send_email"
    /\ \E o \in ElicitOutcomes(Subjects, "", closed["elicitation"]) :
          /\ reply' = [reply EXCEPT ![i] = o.tag]
          /\ Return(i, SendEmailResult(o))
    /\ UNCHANGED <<calcVars, tool, arg, subject, closed, sessionVars, progressVars,
                   peerReqs, entry, cut>>

\* get_user_profile before the elicitation: the cache check
ProfileCheck(i) ==
    /\ pc[i] = "locked"
    /\ tool[i] = "get_user_profile"
    /\ IF user_profile # NoProfile
       THEN /\ Return(i, Success("cached",
                                 <<user_profile.name, user_profile.email>>))
            /\ UNCHANGED peerReqs
       ELSE IssueElicit(i)
    /\ UNCHANGED <<calcVars, tool, arg, subject, closed, sessionVars, progressVars,
                   historyVars>>

\* get_user_profile returning the elicited profile without caching it
ProfileAfter_NotCached(o, old) == old

\* get_user_profile: the profile cached for elicit outcome o
ProfileAfter(o, old) == IF o.tag = "some" THEN o.val ELSE old

\* get_user_profile: the envelope for elicit outcome o
ProfileResult(o) ==
    CASE o.tag = "err" -> InternalError("Failed to elicit user info")
      [] o.tag = "none" ->
             InvalidParams("User profile information is required", FALSE)
      [] OTHER -> Success("elicited", <<o.val.name, o.val.email>>)

\* get_user_profile after the elicitation resolved
ProfileResume(i) ==
    /\ pc[i] = "elicit"
    /\ tool[i] = "get_user_profile"
    /\ \E o \in ElicitOutcomes(Profiles, NoProfile, closed["elicitation"]) :
          /\ reply' = [reply EXCEPT ![i] = o.tag]
          /\ user_profile' = ProfileAfter(o, user_profile)
          /\ Return(i, ProfileResult(o))
    /\ UNCHANGED <<calcVars, tool, arg, subject, closed, github_token, operation_count,
                   sampling_count, progressVars, peerReqs, entry, cut>>

\* clear_profile
ClearProfile(i) ==
    /\ pc[i] = "locked"
    /\ tool[i] = "clear_profile"
    /\ user_profile' = NoProfile
    /\ Return(i, Success("User profile cleared", <<>>))
    /\ UNCHANGED <<calcVars, tool, arg, subject, closed, github_token, operation_count,
                   sampling_count, progressVars, peerReqs, historyVars>>

InvokeElicitation(i) ==
    \E t \in ElicitationTools :
        \E subj \in (IF t = "send_email" THEN Subjects ELSE {""}) :
            Invoke(i, t, 0, subj)

NextElicitation ==
    \/ \E i \in Inv : InvokeElicitation(i)
    \/ \E i \in Inv : Lock(i)
    \/ \E i \in Inv : LoginCheck(i)
    \/ \E i \in Inv : LoginResume(i)
    \/ \E i \in Inv : Logout(i)
    \/ \E i \in Inv : Status(i)
    \/ \E i \in Inv : DeleteStart(i)
    \/ \E i \in Inv : DeleteResume(i)
    \/ \E i \in Inv : SendEmailStart(i)
    \/ \E i \in Inv : SendEmailResume(i)
    \/ \E i \in Inv : ProfileCheck(i)
    \/ \E i \in Inv : ProfileResume(i)
    \/ \E i \in Inv : ClearProfile(i)
    \/ CloseConnection("elicitation")

SpecElicitation == Init /\ [][NextElicitation]_vars

(* --------------------------- progress server --------------------------- *)

StreamTools ==
    {"process_large_file", "analyze_text", "batch_operation", "download_data"}

\* ProgressToken(NumberOrString::Number(n)) and ::String(format!("{name}{n}"))
NumberToken(n) == [kind |-> "number", name |-> "", n |-> n]
StringToken(name, n) == [kind |-> "string", name |-> name, n |-> n]
CompleteToken == [kind |-> "string", name |-> "complete", n |-> -1]

\* A ProgressNotificationParam.  progress is the f64 num/den; total is
\* Some(total) when hasTotal, None otherwise.
Event(token, num, den, hasTotal, total) ==
    [token |-> token, num |-> num, den |-> den,
     hasTotal |-> hasTotal, total |-> total]

\* the number of iterations of the handler's for loop
Steps(t, n) == IF t = "download_data" THEN DownloadChunks ELSE n

\* download_data counting the chunk after the one just downloaded
LoopEvent_OffByOne(t, k, n) ==
    CASE t = "process_large_file" -> Event(NumberToken(k), k, 1, TRUE, n)
      [] t = "analyze_text" -> Event(StringToken("word_", k), k, 1, FALSE, 0)
      [] t = "batch_operation" -> Event(NumberToken(k), k + 1, 1, TRUE, n)
      [] OTHER -> Event(StringToken("download_", k), n * (k + 2),
                        DownloadChunks, TRUE, n)

\* the notification built in iteration k of the loop of tool t with parameter n
LoopEvent(t, k, n) ==
    CASE t = "process_large_file" -> Event(NumberToken(k), k, 1, TRUE, n)
      [] t = "analyze_text" -> Event(StringToken("word_", k), k, 1, FALSE, 0)
      [] t = "batch_operation" -> Event(NumberToken(k), k + 1, 1, TRUE, n)
      [] OTHER -> Event(StringToken("download_", k), n * (k + 1),
                        DownloadChunks, TRUE, n)

\* whether tool t sends a notification after its loop
HasFinalEvent(t) == t # "batch_operation"

\* analyze_text reporting the word count as total on its closing notification
FinalEvent_TotalOnComplete(t, n) ==
    CASE t = "process_large_file" -> Event(NumberToken(n), n, 1, TRUE, n)
      [] OTHER -> Event(CompleteToken, n, 1, TRUE, n)

\* the notification built after the loop
FinalEvent(t, n) ==
    CASE t = "process_large_file" -> Event(NumberToken(n), n, 1, TRUE, n)
      [] t = "analyze_text" -> Event(CompleteToken, n, 1, FALSE, 0)
      [] OTHER -> Event(CompleteToken, n, 1, TRUE, n)

\* the success envelope of a stream tool
StreamResult(t, n) == SuccessN(t, n)

\* The head of the for loop with k iterations done: suspend in iteration k
\* ("chunk"), or leave the loop.
LoopHead(i, k) ==
    /\ loop_i' = [loop_i EXCEPT ![i] = k]
    /\ IF k < Steps(tool[i], arg[i])
       THEN /\ pc' = [pc EXCEPT ![i] = "chunk"]
            /\ UNCHANGED result
       ELSE IF HasFinalEvent(tool[i])
       THEN /\ pc' = [pc EXCEPT ![i] = "final"]
            /\ UNCHANGED result
       ELSE /\ pc' = [pc EXCEPT ![i] = "done"]
            /\ result' = [result EXCEPT ![i] = StreamResult(tool[i], arg[i])]

\* a handler that increments the counter through a guard it keeps until it
\* returns
IncrementCount_KeepsLock(i) ==
    /\ pc[i] = "locked"
    /\ tool[i] \in StreamTools
    /\ operation_count' = operation_count + 1
    /\ LoopHead(i, 0)
    /\ UNCHANGED <<calcVars, tool, arg, subject, lock, closed, github_token,
                   user_profile, sampling_count, events, peerReqs, historyVars>>

\* increment_operation_count, then the handler up to its first sleep
IncrementCount(i) ==
    /\ pc[i] = "locked"
    /\ tool[i] \in StreamTools
    /\ operation_count' = operation_count + 1
    /\ lock' = [lock EXCEPT !["progress"] = 0]
    /\ LoopHead(i, 0)
    /\ UNCHANGED <<calcVars, tool, arg, subject, closed, github_token, user_profile,
                   sampling_count, events, peerReqs, historyVars>>

\* a loop that treats progress delivery as best effort: a failed send is
\* dropped and the loop goes on
Notified_BestEffort(i) ==
    /\ pc[i] = "chunk"
    /\ IF closed["progress"]
       THEN UNCHANGED events
       ELSE events' = [events EXCEPT
                ![i] = Append(@, LoopEvent(tool[i], loop_i[i], arg[i]))]
    /\ LoopHead(i, loop_i[i] + 1)
    /\ UNCHANGED <<calcVars, tool, arg, subject, lock, closed, sessionVars, peerReqs,
                   historyVars>>

\* One iteration of the loop: sleep(..).await is over, the notification is
\* built and notify_progress(..).await resolves, with Err on a closed
\* connection.  Nothing the handler shares changes between the two awaits.
Notified(i) ==
    /\ pc[i] = "chunk"
    /\ IF closed["progress"]
       THEN /\ Return(i, InternalError("Failed to send progress"))
            /\ UNCHANGED progressVars
       ELSE /\ events' = [events EXCEPT
                  ![i] = Append(@, LoopEvent(tool[i], loop_i[i], arg[i]))]
            /\ LoopHead(i, loop_i[i] + 1)
            /\ UNCHANGED lock
    /\ UNCHANGED <<calcVars, tool, arg, subject, closed, sessionVars, peerReqs,
                   historyVars>>

\* notify_progress(..).await of the final notification resolved
FinalNotified(i) ==
    /\ pc[i] = "final"
    /\ IF closed["progress"]
       THEN /\ Return(i, InternalError("Failed to send progress"))
            /\ UNCHANGED events
       ELSE /\ events' = [events EXCEPT
                  ![i] = Append(@, FinalEvent(tool[i], arg[i]))]
            /\ Return(i, StreamResult(tool[i], arg[i]))
    /\ UNCHANGED <<calcVars, tool, arg, subject, closed, sessionVars, loop_i, peerReqs,
                   historyVars>>

\* get_stats of the progress server
GetStats(i) ==
    /\ pc[i] = "locked"
    /\ tool[i] = "get_stats"
    /\ Return(i, SuccessN("operation_count", operation_count))
    /\ UNCHANGED <<calcVars, tool, arg, subject, closed, sessionVars, progressVars,
                   peerReqs, historyVars>>

InvokeProgress(i) ==
    \E t \in ProgressTools :
        \E n \in (CASE t = "get_stats" -> {0}
                    [] t = "download_data" -> 0..MaxSize
                    [] OTHER -> 0..MaxSteps) :
            Invoke(i, t, n, "")

\* fn default_chunks() -> usize and fn default_items() -> usize
default_chunks == 100
default_items == 50

\* the tools of the progress server whose step count has a serde default
DefaultedTools == {"process_large_file", "batch_operation"}

\* ProcessFileParams and BatchOperationParams with one default for both
DefaultSteps_SameDefault(t) == default_chunks

\* ProcessFileParams.chunks with #[serde(default = "default_chunks")] and
\* BatchOperationParams.items with #[serde(default = "default_items")]
DefaultSteps(t) ==
    IF t = "process_large_file" THEN default_chunks ELSE default_items

\* A call of process_large_file arrives with a filename and no chunks, or a
\* call of batch_operation with no items: the derived Deserialize fills in
\* the default and the dispatcher starts the handler in slot i.
InvokeDefaulted(i) ==
    /\ pc[i] = "idle"
    /\ \A j \in Inv : j < i => pc[j] # "idle"
    /\ ~closed["progress"]
    /\ \E t \in DefaultedTools :
          /\ tool' = [tool EXCEPT ![i] = t]
          /\ arg' = [arg EXCEPT ![i] = DefaultSteps(t)]
          /\ request' = [request EXCEPT ![i] =
                 Request(0, "tools/call",
                         [NoArguments EXCEPT
                              !.keys = IF t = "process_large_file"
                                       THEN {"filename"} ELSE {}])]
    /\ pc' = [pc EXCEPT ![i] = "start"]
    /\ UNCHANGED <<process, sessions, router, state, guard, subject, lock,
                   closed, sessionVars, progressVars, peerReqs, result,
                   historyVars>>

NextProgress ==
    \/ \E i \in Inv : InvokeProgress(i)
    \/ \E i \in Inv : Lock(i)
    \/ \E i \in Inv : IncrementCount(i)
    \/ \E i \in Inv : Notified(i)
    \/ \E i \in Inv : FinalNotified(i)
    \/ \E i \in Inv : GetStats(i)
    \/ CloseConnection("progress")

SpecProgress == Init /\ [][NextProgress]_vars

(* --------------------------- sampling server --------------------------- *)

CreateMessageTools == SamplingTools \ {"sampling_get_stats"}

\* What context.peer.create_message(..).await can yield: Ok(response) with or
\* without text content, or Err(e); only Err once the connection is closed.
CreateMessageOutcomes(isClosed) ==
    IF isClosed THEN {"err"} ELSE {"text", "no_text", "err"}

\* a sampling tool that sends its request without counting it
IncrementSampling_NotCounted(i) ==
    /\ pc[i] = "locked"
    /\ tool[i] \in CreateMessageTools
    /\ lock' = [lock EXCEPT !["sampling"] = 0]
    /\ pc' = [pc EXCEPT ![i] = "create_message"]
    /\ peerReqs' = [peerReqs EXCEPT ![i] = @ + 1]
    /\ UNCHANGED <<calcVars, tool, arg, subject, closed, sessionVars,
                   progressVars, result, historyVars>>

\* increment_sampling_count, then the handler up to create_message(..).await
IncrementSampling(i) ==
    /\ pc[i] = "locked"
    /\ tool[i] \in CreateMessageTools
    /\ sampling_count' = sampling_count + 1
    /\ lock' = [lock EXCEPT !["sampling"] = 0]
    /\ pc' = [pc EXCEPT ![i] = "create_message"]
    /\ peerReqs' = [peerReqs EXCEPT ![i] = @ + 1]
    /\ UNCHANGED <<calcVars, tool, arg, subject, closed, github_token, user_profile,
                   operation_count, progressVars, result, historyVars>>

\* a sampling tool falling back to its default text when create_message fails
SamplingResult_ErrorSwallowed(t, o) ==
    IF o = "text" THEN Success(t, <<"generated">>)
    ELSE Success(t, <<"No text generated">>)

\* the envelope of a sampling tool for create_message outcome o
SamplingResult(t, o) ==
    CASE o = "err" -> InternalError("Failed to request LLM")
      [] o = "text" -> Success(t, <<"generated">>)
      [] OTHER -> Success(t, <<"No text generated">>)

\* a sampling tool after create_message resolved
SamplingResume(i) ==
    /\ pc[i] = "create_message"
    /\ \E o \in CreateMessageOutcomes(closed["sampling"]) :
          /\ reply' = [reply EXCEPT ![i] = o]
          /\ Return(i, SamplingResult(tool[i], o))
    /\ UNCHANGED <<calcVars, tool, arg, subject, closed, sessionVars, progressVars,
                   peerReqs, entry, cut>>

\* get_stats of the sampling server
SamplingGetStats(i) ==
    /\ pc[i] = "locked"
    /\ tool[i] = "sampling_get_stats"
    /\ Return(i, SuccessN("sampling_count", sampling_count))
    /\ UNCHANGED <<calcVars, tool, arg, subject, closed, sessionVars, progressVars,
                   peerReqs, historyVars>>

InvokeSampling(i) == \E t \in SamplingTools : Invoke(i, t, 0, "")

NextSampling ==
    \/ \E i \in Inv : InvokeSampling(i)
    \/ \E i \in Inv : Lock(i)
    \/ \E i \in Inv : IncrementSampling(i)
    \/ \E i \in Inv : SamplingResume(i)
    \/ \E i \in Inv : SamplingGetStats(i)
    \/ CloseConnection("sampling")

SpecSampling == Init /\ [][NextSampling]_vars

(* -------------------------- calculator servers ------------------------- *)

peerServerVars ==
    <<arg, subject, lock, closed, sessionVars, progressVars, peerReqs,
      historyVars>>

\* main: the server is constructed and served.  A stdio server serves the one
\* connection it was started on; run_http serves the sessions clients open.
StartServer(s) ==
    /\ process = "none"
    /\ process' = s
    /\ router' = NewRouters(s)
    /\ sessions' = IF s = "http" THEN {} ELSE {1}
    /\ state' = [k \in Sessions |-> NewState]
    /\ UNCHANGED <<pc, tool, result, guard, request, peerServerVars>>

\* run_http: a client opens session k and the service factory
\* || Ok(HttpServer::new()) builds the server that serves it.
OpenSession(k) ==
    /\ process = "http"
    /\ k \notin sessions
    /\ \A j \in Sessions : j < k => j \in sessions
    /\ sessions' = sessions \cup {k}
    /\ state' = [state EXCEPT ![k] = NewState]
    /\ UNCHANGED <<pc, tool, result, process, router, guard, request,
                   peerServerVars>>

\* a result envelope of a calculator server: its text, and its structured
\* payload (the error data of a failure)
Envelope(kind, text, payload, suggestion) ==
    [kind |-> kind, status |-> "", detail |-> text, suggestion |-> suggestion,
     n |-> 0, payload |-> payload]

NoPayload == [none |-> TRUE]

\* the dispatcher finding no route of that name
OperationNotFound(name) ==
    Envelope("OperationNotFound", <<name>>, NoPayload, FALSE)

\* the dispatcher rejecting raw arguments, naming the offending field
ValidationError(f) ==
    Envelope("InvalidParams", <<"validation">>, [field |-> f], FALSE)

\* ArithmeticParams / CalcParams if b were declared with #[serde(default)]
RequiredNumbers_BOptional(t) == IF t \in ArithmeticTools THEN {"a"} ELSE {}

\* the fields of a tool's parameter struct that are f64 without a default
RequiredNumbers(t) == IF t \in ArithmeticTools THEN {"a", "b"} ELSE {}

Field(req, f) == IF f = "a" THEN req.a ELSE req.b

\* the fields of the raw arguments that fail to deserialize
InvalidFields(t, req) ==
    {f \in RequiredNumbers(t) : Field(req, f).kind # "number"}

\* basic_server / http_server, EchoParams and CalculationPromptArgs: the
\* String fields of the parameter struct of operation t, in declaration order
BasicRequiredKeys(t) ==
    CASE t = "echo" -> <<"message">>
      [] t = "calculation_helper" -> <<"calculation_type", "description">>
      [] OTHER -> <<>>

\* macros_demo_server, EchoParams, CodeReviewArgs, WritingArgs and
\* GreetingArgs: the String / Vec fields that are neither Option nor
\* #[serde(default)], in declaration order
MacrosRequiredKeys(t) ==
    CASE t = "echo" -> <<"message">>
      [] t = "code_review" -> <<"language", "code">>
      [] t = "writing_assistant" -> <<"content_type", "audience", "key_points">>
      [] t = "greeting" -> <<"name">>
      [] OTHER -> <<>>

RequiredKeys(s, t) ==
    IF s = "macros" THEN MacrosRequiredKeys(t) ELSE BasicRequiredKeys(t)

\* the required fields the raw arguments do not supply; a field the struct
\* does not declare is skipped by the derived Deserialize
MissingKeys(s, t, req) ==
    LET IsMissing(f) == f \notin req.keys IN
    SelectSeq(RequiredKeys(s, t), IsMissing)

\* the typed value of a field once deserialized (0.0 for a defaulted f64)
Typed(j) == IF j.kind = "number" THEN j.val ELSE 0

\* fn default_increment() -> i32
default_increment == 1

\* i32::MAX, the largest value of ServerState.counter and of an amount
MaxI32 == 2147483647

\* whether a + b leaves the range of i32
OverflowsI32(a, b) ==
    IF b >= 0 THEN a > MaxI32 - b ELSE a < (-MaxI32 - 1) - b

\* a + b in two's complement, as += computes it in a build without overflow
\* checks
WrappingAdd(a, b) ==
    IF ~OverflowsI32(a, b) THEN a + b
    ELSE IF b >= 0 THEN (a - MaxI32 - 1) + (b - MaxI32 - 1)
    ELSE (a + MaxI32 + 1) + (b + MaxI32 + 1)

\* IncrementParams.amount with #[serde(default = "default_increment")]
Amount(req) ==
    IF req.amount.kind = "number" THEN req.amount.val ELSE default_increment

\* fn default_repeat() -> usize
default_repeat == 1

\* EchoParams.repeat with #[serde(default = "default_repeat")]
RepeatCount(req) ==
    IF req.repeat.kind = "number" THEN req.repeat.val ELSE default_repeat

\* (0..params.repeat).map(|_| params.message.clone()).collect().join(" ")
RECURSIVE Repeated(_, _)
Repeated(msg, n) ==
    IF n = 0 THEN <<>>
    ELSE IF n = 1 THEN <<msg>>
    ELSE <<msg, " ">> \o Repeated(msg, n - 1)

\* echo: the message repeated (macros_demo_server), or format!("Echo: {}",
\* params.message) (basic_server, http_server, whose EchoParams has no repeat)
EchoResult(s, req) ==
    IF s = "macros"
    THEN Envelope("success", Repeated(Message, RepeatCount(req)),
                  [message |-> Message, repeat |-> RepeatCount(req),
                   result |-> Repeated(Message, RepeatCount(req))], FALSE)
    ELSE Envelope("success", <<"Echo: ", Message>>, NoPayload, FALSE)

\* the arithmetic of the four calculator tools counting the operands twice
Compute_FirstOperandTwice(t, a, b) ==
    CASE t \in AddTools -> a + a
      [] t \in SubtractTools -> a - b
      [] t \in MultiplyTools -> a * b
      [] OTHER -> a \div b

\* let result = params.a (+ | - | * | /) params.b, for operands whose
\* quotient is an integer
Compute(t, a, b) ==
    CASE t \in AddTools -> a + b
      [] t \in SubtractTools -> a - b
      [] t \in MultiplyTools -> a * b
      [] OTHER -> a \div b

\* format!("{} + {} = {}", params.a, params.b, result)
ArithmeticText(t, a, b) ==
    Display(a) \o <<" ", Sign(t), " ">> \o Display(b) \o <<" ", "=", " ">>
        \o Display(Compute(t, a, b))

\* the payload of a tool that reads calc_count before it increments it
ArithmeticPayload_CountReadFirst(s, t, a, b, st) ==
    CASE s \in {"basic", "http"} ->
             [operation |-> Operation(t), a |-> a, b |-> b,
              result |-> Compute(t, a, b)]
      [] s = "macros" /\ t \in AddTools ->
             [operation |-> Operation(t), a |-> a, b |-> b,
              result |-> Compute(t, a, b), calc_count |-> st.calc_count - 1]
      [] OTHER ->
             [operation |-> Operation(t), result |-> Compute(t, a, b),
              calc_count |-> st.calc_count - 1]

\* the json!({..}) payload of an arithmetic tool of server s
ArithmeticPayload(s, t, a, b, st) ==
    CASE s \in {"basic", "http"} ->
             [operation |-> Operation(t), a |-> a, b |-> b,
              result |-> Compute(t, a, b)]
      [] s = "macros" /\ t \in AddTools ->
             [operation |-> Operation(t), a |-> a, b |-> b,
              result |-> Compute(t, a, b), calc_count |-> st.calc_count]
      [] OTHER ->
             [operation |-> Operation(t), result |-> Compute(t, a, b),
              calc_count |-> st.calc_count]

\* a divide tool without the test for a zero divisor: f64 division yields
\* inf or NaN and the tool reports success
DivideByZero_Unchecked(s, b) ==
    Envelope("success", <<"inf">>, [operation |-> "divide"], FALSE)

\* if params.b == 0.0 { return Err(McpError::invalid_params(..)) }
DivideByZero(s, b) ==
    IF s = "macros"
    THEN Envelope("InvalidParams", <<"Division by zero">>,
                  [error |-> "Cannot divide by zero",
                   suggestion |-> "Use a non-zero divisor"], TRUE)
    ELSE Envelope("InvalidParams", <<"Cannot divide by zero">>,
                  [field |-> "b", value |-> b,
                   suggestion |-> "Provide a non-zero divisor"], TRUE)

\* the URI read_resource serves, and the URIs callers ask for: that one and
\* the one resource_reader tries
ConfigUri == "config://server"
Uris == {ConfigUri, "resource://config"}

\* McpError::resource_not_found("Resource not found", {uri})
ResourceNotFound(uri) ==
    Envelope("ResourceNotFound", <<"Resource not found">>, [uri |-> uri],
             FALSE)

\* tools whose handler takes the state lock
LockingTools(s) ==
    IF s = "macros" THEN MacrosTools \ {"echo"}
    ELSE ArithmeticTools \cup {"get_stats"}

\* a server whose get_stats and read_resource count as operations too
StateAfter_ReadsCount(s, t, req, st) ==
    CASE s \in {"basic", "http"} -> [st EXCEPT !.operation_count = @ + 1]
      [] s = "macros" /\ t \in ArithmeticTools ->
             [st EXCEPT !.calc_count = @ + 1]
      [] s = "macros" /\ t = "increment" ->
             [st EXCEPT !.counter = WrappingAdd(@, Amount(req))]
      [] s = "macros" /\ t = "reset_counter" -> [st EXCEPT !.counter = 0]
      [] OTHER -> st

\* the ServerState a locking tool leaves, st being the one it found
StateAfter(s, t, req, st) ==
    CASE s \in {"basic", "http"} /\ t \in ArithmeticTools ->
             [st EXCEPT !.operation_count = @ + 1]
      [] s = "macros" /\ t \in ArithmeticTools ->
             [st EXCEPT !.calc_count = @ + 1]
      [] s = "macros" /\ t = "increment" ->
             [st EXCEPT !.counter = WrappingAdd(@, Amount(req))]
      [] s = "macros" /\ t = "reset_counter" -> [st EXCEPT !.counter = 0]
      [] OTHER -> st

ConfigContents_Static(st) ==
    Envelope("success", <<ConfigUri>>,
             [statistics |-> [operation_count |-> 0]], FALSE)

\* the contents of 'config://server', read with the lock held: the fixed
\* server and capabilities sections and the statistics of the state st
ConfigContents(st) ==
    Envelope("success", <<ConfigUri>>,
             [statistics |-> [operation_count |-> st.operation_count]], FALSE)

\* the envelope a locking tool returns, st being the state it found and
\* new the one it leaves
LockedResult(s, t, req, st, new) ==
    CASE t = ConfigUri -> ConfigContents(st)
      [] t \in DivideTools /\ Typed(req.b) = 0 -> DivideByZero(s, Typed(req.b))
      [] t \in ArithmeticTools ->
             Envelope("success", ArithmeticText(t, Typed(req.a), Typed(req.b)),
                      ArithmeticPayload(s, t, Typed(req.a), Typed(req.b), new),
                      FALSE)
      [] t = "increment" ->
             Envelope("success", <<"Counter incremented">>,
                      [counter |-> new.counter, increment |-> Amount(req)],
                      FALSE)
      [] t = "get_counter" ->
             Envelope("success", <<"Counter">>, [counter |-> st.counter], FALSE)
      [] t = "reset_counter" ->
             Envelope("success", <<"Counter reset">>,
                      [old_value |-> st.counter, new_value |-> 0], FALSE)
      [] s = "macros" ->
             Envelope("success", <<"Counter, Calculations">>,
                      [counter |-> st.counter, calc_count |-> st.calc_count],
                      FALSE)
      [] OTHER ->
             Envelope("success", <<"Total operations performed">>,
                      [operation_count |-> st.operation_count], FALSE)

\* what a handler returns before its first suspension, or NoResult when it
\* suspends in self.state.lock().await
ImmediateResult(s, m, t, req) ==
    CASE m = "prompts/get" -> Envelope("success", <<t>>, NoPayload, FALSE)
      [] s = "macros" /\ t = "divide" /\ Typed(req.b) = 0 ->
             DivideByZero(s, Typed(req.b))
      [] t \in LockingTools(s) -> NoResult
      [] OTHER -> EchoResult(s, req)

\* The dispatcher generated by #[tool_handler] / #[prompt_handler]: look the
\* name up in the router of the request's method, deserialize the raw
\* arguments into the handler's parameter struct, then run the handler.
Dispatch(s, r, m, t, req) ==
    LET routes == IF m = "tools/call" THEN r.tools ELSE r.prompts IN
    IF ~has_route(routes, t) THEN OperationNotFound(t)
    ELSE IF m = "tools/call" /\ InvalidFields(t, req) # {}
    THEN ValidationError(CHOOSE f \in InvalidFields(t, req) :
                            \A g \in InvalidFields(t, req) : f = "a" \/ g # "a")
    ELSE IF MissingKeys(s, t, req) # <<>>
    THEN ValidationError(Head(MissingKeys(s, t, req)))
    ELSE ImmediateResult(s, m, t, req)

\* a name no server registers
Unregistered == "no_such_operation"

\* the names callers ask for with method m
RequestNames(s, m) ==
    IF m = "tools/call"
    THEN DeclaredTools(s) \cup DeclaredPrompts(s) \cup {Unregistered}
    ELSE DeclaredPrompts(s) \cup {"echo", Unregistered}

\* the operands callers send to tool t: for a divide tool the pairs with a
\* zero divisor or an integer quotient
Operands(t) ==
    IF t \in DivideTools
    THEN {p \in FirstOperands \X SecondOperands :
              p[2] = 0 \/ p[1] % p[2] = 0}
    ELSE FirstOperands \X SecondOperands

\* a name no parameter struct declares
Undeclared == "trace_id"

\* prompt_consumer: the argument names of its get_prompt requests
ConsumerArguments(t) ==
    CASE t = "code_review" -> {"language", "file_path", "focus_areas"}
      [] t = "writing_assistant" -> {"topic", "style", "length"}
      [] OTHER -> {}

\* the raw arguments callers send to server s with a request for name t:
\* for a prompt the required fields of its schema, or what prompt_consumer
\* sends; for echo and increment with and without the defaulted parameter
\* and an undeclared field
Arguments(s, m, t) ==
    CASE m = "tools/call" /\ t \in ArithmeticTools ->
             {[NoArguments EXCEPT !.a = Num(p[1]), !.b = Num(p[2])] :
                  p \in Operands(t)}
             \cup {[NoArguments EXCEPT !.a = Num(15), !.b = j] :
                       j \in {Missing, Str}}
      [] m = "tools/call" /\ t = "increment" ->
             {NoArguments, [NoArguments EXCEPT !.keys = {Undeclared}],
              [NoArguments EXCEPT !.amount = Num(15)],
              [NoArguments EXCEPT !.amount = Num(MaxI32)]}
      [] m = "tools/call" /\ t = "echo" ->
             {NoArguments, [NoArguments EXCEPT !.keys = {"message"}],
              [NoArguments EXCEPT !.keys = {"message", Undeclared}],
              [NoArguments EXCEPT !.keys = {"message"}, !.repeat = Num(2)]}
      [] m = "prompts/get" ->
             {[NoArguments EXCEPT
                   !.keys = {RequiredKeys(s, t)[x] :
                                 x \in DOMAIN RequiredKeys(s, t)}],
              [NoArguments EXCEPT !.keys = ConsumerArguments(t)]}
      [] OTHER -> {NoArguments}

\* the handler returns r and drops its MutexGuard
CalcReturn(i, r) ==
    /\ pc' = [pc EXCEPT ![i] = "done"]
    /\ result' = [result EXCEPT ![i] = r]
    /\ guard' = [k \in Sessions |-> IF guard[k] = i THEN 0 ELSE guard[k]]

\* A request arrives on session k and is dispatched; the handler runs up to
\* its first suspension.
CalcInvoke(i) ==
    /\ pc[i] = "idle"
    /\ \A j \in Inv : j < i => pc[j] # "idle"
    /\ process \in CalcServers
    /\ \E k \in sessions, m \in Methods :
         \E t \in RequestNames(process, m) :
           \E x \in Arguments(process, m, t) :
             LET req == Request(k, m, x)
                 r == Dispatch(process, router, m, t, req)
             IN /\ tool' = [tool EXCEPT ![i] = t]
                /\ request' = [request EXCEPT ![i] = req]
                /\ IF r = NoResult
                   THEN /\ pc' = [pc EXCEPT ![i] = "start"]
                        /\ UNCHANGED <<result, guard>>
                   ELSE CalcReturn(i, r)
    /\ UNCHANGED <<process, sessions, router, state, peerServerVars>>

\* read_resource of basic_server and http_server up to its first suspension:
\* the match on the URI, which for config://server goes on to
\* self.state.lock().await and for any other URI returns resource_not_found
ReadResource(i) ==
    /\ pc[i] = "idle"
    /\ \A j \in Inv : j < i => pc[j] # "idle"
    /\ process \in {"basic", "http"}
    /\ \E k \in sessions, uri \in Uris :
          /\ tool' = [tool EXCEPT ![i] = uri]
          /\ request' = [request EXCEPT ![i] =
                            Request(k, "resources/read", NoArguments)]
          /\ IF uri = ConfigUri
             THEN /\ pc' = [pc EXCEPT ![i] = "start"]
                  /\ UNCHANGED <<result, guard>>
             ELSE CalcReturn(i, ResourceNotFound(uri))
    /\ UNCHANGED <<process, sessions, router, state, peerServerVars>>

\* self.state.lock().await of the server that serves the request's session
CalcLock(i) ==
    /\ pc[i] = "start"
    /\ request[i].method \in {"tools/call", "resources/read"}
    /\ request[i].session \in sessions
    /\ guard[request[i].session] = 0
    /\ guard' = [guard EXCEPT ![request[i].session] = i]
    /\ pc' = [pc EXCEPT ![i] = "locked"]
    /\ UNCHANGED <<tool, result, process, sessions, router, state, request,
                   peerServerVars>>

\* The handler from the lock to its return.  When state.counter +=
\* params.amount overflows, a build with overflow checks aborts the handler
\* before the store and a build without them stores the wrapped sum.
CalcBody(i) ==
    /\ pc[i] = "locked"
    /\ request[i].method \in {"tools/call", "resources/read"}
    /\ request[i].session \in sessions
    /\ LET k == request[i].session
           new == StateAfter(process, tool[i], request[i], state[k])
       IN \/ /\ state' = [state EXCEPT ![k] = new]
             /\ CalcReturn(i, LockedResult(process, tool[i], request[i],
                                           state[k], new))
          \/ /\ process = "macros" /\ tool[i] = "increment"
             /\ OverflowsI32(state[k].counter, Amount(request[i]))
             /\ state' = state
             /\ CalcReturn(i, Envelope("panic", <<>>, NoPayload, FALSE))
    /\ UNCHANGED <<tool, process, sessions, router, request, peerServerVars>>

NextCalc ==
    \/ \E s \in CalcServers : StartServer(s)
    \/ \E k \in Sessions : OpenSession(k)
    \/ \E i \in Inv : CalcInvoke(i)
    \/ \E i \in Inv : ReadResource(i)
    \/ \E i \in Inv : CalcLock(i)
    \/ \E i \in Inv : CalcBody(i)

SpecCalc == Init /\ [][NextCalc]_vars

(* ------ the calculator servers and the progress server's defaults ------ *)

\* the calculator servers, and the progress server called without the
\* parameters that have a default, on a connection that stays open
NextDefaults ==
    \/ NextCalc
    \/ \E i \in Inv : InvokeDefaulted(i)
    \/ \E i \in Inv : Lock(i)
    \/ \E i \in Inv : IncrementCount(i)
    \/ \E i \in Inv : Notified(i)
    \/ \E i \in Inv : FinalNotified(i)

SpecDefaults == Init /\ [][NextDefaults]_vars

(* --------------- progress and sampling servers together --------------- *)

NextCounting == NextProgress \/ NextSampling

SpecCounting == Init /\ [][NextCounting]_vars

(* ------------- elicitation and sampling servers together --------------- *)

NextPeer == NextElicitation \/ NextSampling

\* A peer request that is waiting is resolved: by the caller's reply or, once
\* the connection is closed, by the channel's error.
PeerFairness ==
    \A i \in Inv :
        /\ WF_vars(LoginResume(i))
        /\ WF_vars(DeleteResume(i))
        /\ WF_vars(SendEmailResume(i))
        /\ WF_vars(ProfileResume(i))
        /\ WF_vars(SamplingResume(i))

SpecPeer == Init /\ [][NextPeer]_vars /\ PeerFairness

\* a step of a handler that is not suspended in a peer request
HandlerStep(i) ==
    \/ LoginCheck(i) \/ Logout(i) \/ Status(i) \/ DeleteStart(i)
    \/ SendEmailStart(i) \/ ProfileCheck(i) \/ ClearProfile(i)
    \/ IncrementSampling(i) \/ SamplingGetStats(i)

\* The runtime schedules every task that can run, and tokio's Mutex hands the
\* lock to its waiters in turn, so a waiter is not passed over forever.
SchedulingFairness ==
    \A i \in Inv : WF_vars(HandlerStep(i)) /\ SF_vars(Lock(i))

SpecLive == Init /\ [][NextPeer]_vars /\ PeerFairness /\ SchedulingFairness

(* ----------------------------- annotations ----------------------------- *)

\* the tools of server s declared with annotations(readOnlyHint = true)
ReadOnlyTools(s) ==
    CASE s \in {"basic", "http"} -> ArithmeticTools \cup {"echo", "get_stats"}
      [] s = "macros" ->
             ArithmeticTools \cup {"get_counter", "echo", "get_stats"}
      [] s = "progress" -> {"analyze_text", "get_stats"}
      [] s = "sampling" -> SamplingTools
      [] s = "elicitation" -> {"github_status"}
      [] OTHER -> {}

(* ------------------------------ properties ----------------------------- *)

Running(i) == pc[i] \notin {"idle", "done"}
Finished(i) == pc[i] = "done"
Finishes(i) == pc[i] # "done" /\ pc'[i] = "done"
Failure == {"InternalError", "InvalidParams"}
CachingTools == {"github_login", "get_user_profile"}
Last(q) == q[Len(q)]
TokensOf(i) == {events[i][k].token : k \in 1..Len(events[i])}

\* C1: an invocation suspended in an elicitation does not hold the state lock.
C1_NoLockAcrossElicit ==
    \A i \in Inv : pc[i] = "elicit" => lock["elicitation"] # i

\* invocation b only reads the session state: github_status, or a cache hit
CacheRead(b) ==
    \/ tool[b] = "github_status"
    \/ tool[b] = "get_user_profile" /\ user_profile # NoProfile
    \/ tool[b] = "github_login" /\ github_token # NoToken

\* C2: while invocation a is suspended in the elicitation of a cache miss, a
\* reading invocation b at its lock() finds the lock free, so it can run to
\* completion before a's elicitation is answered.
C2_ReaderNotBlocked ==
    \A a, b \in Inv :
        (/\ a # b
         /\ pc[a] = "elicit" /\ tool[a] \in CachingTools
         /\ pc[b] = "start" /\ CacheRead(b))
        => lock["elicitation"] = 0

\* C3: when github_login or get_user_profile ends in failure, the lock is
\* free and github_token and user_profile are what the invocation found.
C3_FailureLeavesState ==
    [][\A i \in Inv :
          (/\ Finishes(i)
           /\ tool[i] \in CachingTools
           /\ result'[i].kind \in Failure)
          => /\ lock'["elicitation"] = 0
             /\ github_token' = entry[i].github_token
             /\ user_profile' = entry[i].user_profile]_vars

C3_Witness ==
    \E i \in Inv :
        /\ Finished(i) /\ tool[i] = "github_login"
        /\ result[i].kind = "InvalidParams" /\ reply[i] = "some"
        /\ entry[i].user_profile # NoProfile
        /\ lock["elicitation"] = 0

\* what holds of an invocation that was suspended in a peer request when the
\* connection was torn down
C4_Safe ==
    \A i \in Inv :
        cut[i] => /\ peerReqs[i] = 1
                  /\ pc[i] \in {"elicit", "create_message", "done"}
                  /\ Finished(i) => result[i].kind = "InternalError"

C5_DeclinedElicitation ==
    [][\A i \in Inv :
          (Finishes(i) /\ reply'[i] = "none") =>
             /\ tool[i] = "github_login" =>
                   /\ result'[i].kind = "InvalidParams"
                   /\ github_token' = github_token
             /\ tool[i] = "delete_data" =>
                   /\ result'[i].kind = "success"
                   /\ result'[i].status = "cancelled"
                   /\ UNCHANGED sessionVars]_vars

C5_Witness ==
    /\ \E i \in Inv : Finished(i) /\ tool[i] = "github_login" /\ reply[i] = "none"
    /\ \E i \in Inv : Finished(i) /\ tool[i] = "delete_data" /\ reply[i] = "none"

Succeeded(i) == Finished(i) /\ result[i].kind = "success"

\* C6: a successful progress-emitting invocation of N steps has sent exactly
\* N + 1 events.
C6_EventCount ==
    \A i \in Inv :
        (Succeeded(i) /\ tool[i] \in StreamTools)
        => Len(events[i]) = Steps(tool[i], arg[i]) + 1

\* C7: all events of one invocation carry the same progress token.
C7_OneToken ==
    \A i \in Inv : \A k \in 1..Len(events[i]) :
        events[i][k].token = events[i][1].token

\* C8: two invocations running concurrently share no progress token.
C8_TokensDisjoint ==
    \A i, j \in Inv :
        (i # j /\ Running(i) /\ Running(j)) => TokensOf(i) \cap TokensOf(j) = {}

BoundedTools == {"process_large_file", "batch_operation", "download_data"}

\* C10: a successful invocation of a bounded progress tool has sent at least
\* one event and its last event has progress = total.
C10_FinalEventComplete ==
    \A i \in Inv :
        (Succeeded(i) /\ tool[i] \in BoundedTools)
        => /\ Len(events[i]) >= 1
           /\ Last(events[i]).hasTotal
           /\ Last(events[i]).num = Last(events[i]).total * Last(events[i]).den

\* C11: within one invocation's stream total is present on every event (the
\* bounded tools) or absent on every event (analyze_text), never mixed.
C11_TotalConsistent ==
    \A i \in Inv : \A k \in 1..Len(events[i]) :
        /\ events[i][k].hasTotal = events[i][1].hasTotal
        /\ events[i][k].hasTotal = (tool[i] \in BoundedTools)

C11_Witness ==
    /\ \E i \in Inv : /\ Succeeded(i) /\ tool[i] = "analyze_text"
                      /\ Len(events[i]) = MaxSteps + 1
    /\ \E i \in Inv : /\ Succeeded(i) /\ tool[i] = "process_large_file"
                      /\ Len(events[i]) = MaxSteps + 1

\* invocation i is suspended in a notify_progress that fails
SendFails(i) == pc[i] \in {"chunk", "final"} /\ closed["progress"]

\* C12: the step in which sending a progress event fails ends the invocation
\* with InternalError: no further event, no further loop iteration, and
\* never a success envelope.
C12_FailedSendAborts ==
    [][\A i \in Inv :
          (SendFails(i) /\ <<pc[i], events[i], loop_i[i]>>
                              # <<pc'[i], events'[i], loop_i'[i]>>)
          => /\ pc'[i] = "done"
             /\ result'[i].kind = "InternalError"
             /\ events'[i] = events[i]
             /\ loop_i'[i] = loop_i[i]]_vars

C12_Witness ==
    /\ \E i \in Inv : /\ Finished(i) /\ tool[i] = "batch_operation"
                      /\ result[i].kind = "InternalError"
                      /\ Len(events[i]) = 1 /\ arg[i] = MaxSteps
    /\ \E i \in Inv : /\ Finished(i) /\ tool[i] = "process_large_file"
                      /\ result[i].kind = "InternalError"
                      /\ Len(events[i]) = arg[i]

\* invocation i is a tool call that reached the handler of tool t: the name
\* has a route and the raw arguments deserialize
Handled(i) ==
    /\ request[i].method = "tools/call"
    /\ has_route(router.tools, tool[i])
    /\ InvalidFields(tool[i], request[i]) = {}
    /\ MissingKeys(process, tool[i], request[i]) = <<>>

ZeroDivide(i) ==
    Handled(i) /\ tool[i] \in DivideTools /\ request[i].b = Num(0)

\* C13: a divide tool given the divisor 0 never succeeds and never aborts;
\* it returns InvalidParams whose data has a suggestion to use a non-zero
\* divisor, whatever the dividend.
C13_DivideByZero ==
    \A i \in Inv :
        ZeroDivide(i) =>
            /\ result[i].kind \notin {"success", "panic"}
            /\ Finished(i) =>
                  /\ result[i].kind = "InvalidParams"
                  /\ "suggestion" \in DOMAIN result[i].payload
                  /\ result[i].payload.suggestion
                         \in {"Provide a non-zero divisor",
                              "Use a non-zero divisor"}

C13_Witness ==
    /\ process = "basic"
    /\ \E i \in Inv : Finished(i) /\ ZeroDivide(i) /\ request[i].a = Num(15)
    /\ \E i \in Inv : Finished(i) /\ ZeroDivide(i) /\ request[i].a = Num(0)

\* the text calculator_add is to return for the operands callers send
ExpectedAddText(a, b) ==
    CASE a = 0 /\ b = 0 -> <<"0", " ", "+", " ", "0", " ", "=", " ", "0">>
      [] a = 0 /\ b = 27 ->
             <<"0", " ", "+", " ", "2", "7", " ", "=", " ", "2", "7">>
      [] a = 15 /\ b = 0 ->
             <<"1", "5", " ", "+", " ", "0", " ", "=", " ", "1", "5">>
      [] a = 15 /\ b = 27 ->
             <<"1", "5", " ", "+", " ", "2", "7", " ", "=", " ", "4", "2">>

\* C14: calculator_add with numbers a and b returns success with the payload
\* {operation: "add", a, b, result: a + b} and the text "a + b = result";
\* 15 and 27 give 42.
C14_AddResult ==
    \A i \in Inv :
        (Finished(i) /\ Handled(i) /\ tool[i] = "calculator_add") =>
            LET a == request[i].a.val
                b == request[i].b.val
            IN /\ result[i].kind = "success"
               /\ result[i].payload =
                      [operation |-> "add", a |-> a, b |-> b, result |-> a + b]
               /\ result[i].detail = ExpectedAddText(a, b)
               /\ (a = 15 /\ b = 27) => result[i].payload.result = 42

C14_Witness ==
    \E i \in Inv :
        /\ Finished(i) /\ Handled(i) /\ tool[i] = "calculator_add"
        /\ process = "basic"
        /\ request[i].a = Num(15) /\ request[i].b = Num(27)
        /\ result[i].payload.result = 42

\* C15: the routers built at construction hold exactly the declared
\* operations, in every state: every declared name has a route and list_all
\* counts 6 tools and 1 prompt (basic_server), 9 and 4 (macros_demo_server),
\* 7 tools (elicitation_server), 5 (progress_server), 6 (sampling_server).
C15_RegistryContents ==
    /\ process = "basic" =>
          /\ \A name \in {"calculator_add", "calculator_subtract",
                          "calculator_multiply", "calculator_divide", "echo",
                          "get_stats"} : has_route(router.tools, name)
          /\ Cardinality(list_all(router.tools)) = 6
          /\ has_route(router.prompts, "calculation_helper")
          /\ Cardinality(list_all(router.prompts)) = 1
    /\ process = "macros" =>
          /\ \A name \in {"add", "subtract", "multiply", "divide", "increment",
                          "get_counter", "reset_counter", "echo", "get_stats"} :
                 has_route(router.tools, name)
          /\ Cardinality(list_all(router.tools)) = 9
          /\ \A name \in {"greeting", "code_review", "writing_assistant",
                          "help"} : has_route(router.prompts, name)
          /\ Cardinality(list_all(router.prompts)) = 4
    /\ Cardinality(ElicitationTools) = 7
    /\ Cardinality(ProgressTools) = 5
    /\ Cardinality(SamplingTools) = 6

C15_Witness ==
    /\ process = "basic"
    /\ \A i \in Inv : Finished(i)
    /\ \E i \in Inv : Handled(i) /\ tool[i] = "echo"
    /\ \E i \in Inv : Handled(i) /\ tool[i] = "calculator_add"
    /\ Cardinality(list_all(router.tools)) = 6

\* invocation i starts in this step
Arrives(i) == pc[i] = "idle" /\ pc'[i] # "idle"

\* the request of invocation i names no operation of its method: a name no
\* server registers, a prompt called as a tool, or a tool asked for as a
\* prompt
Misrouted(i) ==
    \/ tool[i] = "no_such_operation"
    \/ /\ request[i].method = "tools/call"
       /\ tool[i] \in {"calculation_helper", "greeting", "code_review",
                       "writing_assistant", "help"}
    \/ request[i].method = "prompts/get" /\ tool[i] = "echo"

\* C16: a request for a name that is not in the registry of its method ends
\* with OperationNotFound in the step in which it arrives: no handler runs,
\* no lock is taken, no peer request is issued and the server state is
\* unchanged.
C16_UnknownOperation ==
    [][\A i \in Inv :
          (Arrives(i) /\ Misrouted(i)') =>
              /\ pc'[i] = "done"
              /\ result'[i].kind = "OperationNotFound"
              /\ state' = state
              /\ guard' = guard
              /\ peerReqs'[i] = 0]_vars

C16_Witness ==
    /\ process = "basic"
    /\ \E i \in Inv : /\ Finished(i) /\ request[i].method = "tools/call"
                      /\ tool[i] = "calculation_helper"
                      /\ result[i].kind = "OperationNotFound"
    /\ \E i \in Inv : /\ Finished(i) /\ request[i].method = "prompts/get"
                      /\ tool[i] = "echo"
                      /\ result[i].kind = "OperationNotFound"

\* the request of invocation i is a call of a registered arithmetic tool
\* whose raw arguments lack a or b, or hold a non-number there
Malformed(i) ==
    /\ request[i].method = "tools/call"
    /\ has_route(router.tools, tool[i])
    /\ tool[i] \in {"calculator_add", "calculator_subtract",
                    "calculator_multiply", "calculator_divide",
                    "add", "subtract", "multiply", "divide"}
    /\ request[i].a.kind # "number" \/ request[i].b.kind # "number"

\* C17: a call whose raw arguments lack a required field or hold a value of
\* the wrong type ends with InvalidParams in the step in which it arrives:
\* the handler body does not run, the server state (operation_count,
\* calc_count) is unchanged and no peer request is issued.
C17_ValidationFirst ==
    [][\A i \in Inv :
          (Arrives(i) /\ Malformed(i)') =>
              /\ pc'[i] = "done"
              /\ result'[i].kind = "InvalidParams"
              /\ state' = state
              /\ guard' = guard
              /\ peerReqs'[i] = 0]_vars

C17_Witness ==
    /\ process = "basic"
    /\ \E i \in Inv : /\ Finished(i) /\ tool[i] = "calculator_add"
                      /\ Malformed(i) /\ request[i].b = Missing
                      /\ result[i].kind = "InvalidParams"
    /\ \E i \in Inv : /\ Finished(i) /\ tool[i] = "calculator_add"
                      /\ Malformed(i) /\ request[i].b = Str
                      /\ result[i].kind = "InvalidParams"
    /\ state[1].operation_count = 0

\* invocation j went through a calculator tool that counts an operation
Counted(j) == Finished(j) /\ Handled(j) /\ tool[j] \in ArithmeticTools

\* C18: the HTTP server has one ServerState shared by all its sessions: the
\* operation_count get_stats returns in any session counts the operations
\* performed through every session.
C18_OneSharedState ==
    [][\A i \in Inv :
          (/\ Finishes(i) /\ process = "http"
           /\ Handled(i) /\ tool[i] = "get_stats")
          => result'[i].payload.operation_count
                 = Cardinality({j \in Inv : Counted(j)})]_vars

\* invocation i is between the return of its lock().await and the drop of
\* the guard
HoldsLock(i) ==
    \/ pc[i] = "locked"
    \/ pc[i] = "elicit" /\ tool[i] \in CachingTools

\* invocation i takes a step
Steps_(i) == pc'[i] # pc[i]

\* tools whose returned envelope is computed from the server state
StateReaders ==
    {"github_status", "github_login", "get_user_profile", "sampling_get_stats"}

\* C19: at most one invocation holds the state lock of a server, and every
\* step that writes github_token, user_profile or sampling_count, or that
\* returns what it read from them, is taken by the invocation holding it.
C19_StateUnderLock ==
    /\ [](\A i, j \in Inv :
             (/\ HoldsLock(i) /\ HoldsLock(j)
              /\ ServerOf(tool[i]) = ServerOf(tool[j])) => i = j)
    /\ [](\A i \in Inv : HoldsLock(i) => lock[ServerOf(tool[i])] = i)
    /\ [][/\ (github_token' # github_token \/ user_profile' # user_profile)
              => \E i \in Inv : lock["elicitation"] = i /\ Steps_(i)
          /\ sampling_count' # sampling_count
              => \E i \in Inv : lock["sampling"] = i /\ Steps_(i)
          /\ \A i \in Inv :
                (Finishes(i) /\ tool[i] \in StateReaders)
                => lock[ServerOf(tool[i])] = i]_vars

C19_Witness ==
    \E a, b \in Inv :
        /\ pc[a] = "elicit" /\ tool[a] = "github_login"
        /\ lock["elicitation"] = a
        /\ pc[b] = "start" /\ tool[b] = "github_logout"
        /\ github_token = NoToken

\* C20: every domain failure of github_login, delete_data and send_email is
\* an InvalidParams error whose data has a suggestion field.
C20_FailureHasSuggestion ==
    \A i \in Inv :
        (/\ Finished(i)
         /\ tool[i] \in {"github_login", "delete_data", "send_email"}
         /\ result[i].kind = "InvalidParams")
        => result[i].suggestion

\* invocation i of a progress or sampling tool is suspended: in a sleep or a
\* notify_progress send, or in createMessage
Suspended(i) == pc[i] \in {"chunk", "final", "create_message"}

\* C21: a progress or sampling handler that is suspended does not hold the
\* state lock, and whoever holds the lock of these servers is not suspended,
\* so get_stats never waits for an invocation that is in flight.
C21_LockFreeWhileSuspended ==
    /\ \A i \in Inv : Suspended(i) => lock[ServerOf(tool[i])] # i
    /\ \A s \in {"progress", "sampling"} :
           lock[s] # 0 => pc[lock[s]] = "locked"

C21_Witness ==
    \E a, b \in Inv :
        /\ pc[a] = "chunk" /\ tool[a] = "process_large_file"
        /\ Len(events[a]) >= 1
        /\ tool[b] = "get_stats" /\ Finished(b) /\ result[b].n = 1

\* invocation i is one of the get_prompt requests prompt_consumer sends to
\* macros_demo_server, and has been answered
ConsumerRequest(i) ==
    /\ process = "macros"
    /\ request[i].method = "prompts/get"
    /\ tool[i] \in {"code_review", "writing_assistant"}
    /\ request[i].keys = ConsumerArguments(tool[i])
    /\ pc[i] = "done"

\* C22: the get_prompt requests prompt_consumer sends for code_review and
\* writing_assistant supply the required fields of those prompts, so each is
\* answered with a prompt result and not with InvalidParams.
C22_ConsumerPromptsAccepted ==
    \A i \in Inv : ConsumerRequest(i) => result[i].kind = "success"

\* the request of invocation i without the field no struct declares
Plain(req) == [req EXCEPT !.keys = @ \ {Undeclared}]

\* invocation i is a tools/call of tool t on a calculator server
CalcCall(i, t) ==
    /\ request[i].method = "tools/call"
    /\ request[i].session \in sessions
    /\ tool[i] = t

\* invocation i is a call of the progress server's tool t that leaves out
\* the parameter with a default
StepsOmitted(i, t) ==
    /\ request[i].method = "tools/call"
    /\ request[i].session = 0
    /\ tool[i] = t
    /\ request[i].keys \cap {"chunks", "items"} = {}

\* C23: an absent optional parameter takes its declared default and an
\* undeclared extra field changes nothing: increment without amount adds
\* exactly 1, echo without repeat returns the message once,
\* process_large_file without chunks runs 100 steps and batch_operation
\* without items runs 50.
C23_DefaultsApplied ==
    /\ [](\A i \in Inv :
            /\ (/\ Finished(i) /\ process = "macros" /\ CalcCall(i, "echo")
                 /\ "message" \in request[i].keys
                 /\ request[i].repeat = Missing)
                => /\ result[i].kind = "success"
                   /\ result[i].detail = <<Message>>
                   /\ result[i].payload.repeat = 1
            /\ (/\ Finished(i) /\ process = "macros"
                 /\ CalcCall(i, "increment") /\ request[i].amount = Missing)
                => /\ result[i].kind = "success"
                   /\ result[i].payload.increment = 1
            /\ StepsOmitted(i, "process_large_file")
                => /\ loop_i[i] <= 100
                   /\ Finished(i)
                          => /\ result[i].kind = "success"
                             /\ loop_i[i] = 100
                             /\ Len(events[i]) = 101
            /\ StepsOmitted(i, "batch_operation")
                => /\ loop_i[i] <= 50
                   /\ Finished(i)
                          => /\ result[i].kind = "success"
                             /\ loop_i[i] = 50
                             /\ Len(events[i]) = 50)
    /\ [][\A i \in Inv :
            /\ (Arrives(i) /\ request'[i].session \in sessions
                 /\ request'[i].method \in Methods)
                => LET plain == Dispatch(process, router, request'[i].method,
                                         tool'[i], Plain(request'[i]))
                   IN IF plain = NoResult
                      THEN pc'[i] = "start"
                      ELSE pc'[i] = "done" /\ result'[i] = plain
            /\ (Finishes(i) /\ pc[i] = "locked"
                 /\ request[i].session \in sessions)
                => LET k == request[i].session
                       new == StateAfter(process, tool[i], Plain(request[i]),
                                         state[k])
                   IN /\ state'[k] = new
                      /\ result'[i] = LockedResult(process, tool[i],
                                           Plain(request[i]), state[k], new)
                      /\ (process = "macros" /\ tool[i] = "increment"
                          /\ request[i].amount = Missing)
                         => state'[k].counter = state[k].counter + 1]_vars

C23_Witness ==
    \E a, b \in Inv :
        /\ StepsOmitted(a, "process_large_file") /\ Finished(a)
        /\ Len(events[a]) = 101
        /\ process = "macros" /\ CalcCall(b, "increment") /\ Finished(b)
        /\ request[b].amount = Missing /\ request[b].keys = {Undeclared}
        /\ state[1].counter = 1

\* the invocations of tool t that wait for the answer to their elicitation
Eliciting(t) == {i \in Inv : tool[i] = t /\ pc[i] = "elicit"}

\* invocation i of tool t, holding the lock, makes its cache check in this step
ChecksCache(i, t) == tool[i] = t /\ pc[i] = "locked" /\ pc'[i] # "locked"

\* C24: check and commit of the credential cache are atomic: at most one
\* elicitation of github_login is outstanding at any time, and a github_login
\* that finds a token stored returns already_authenticated without eliciting;
\* the same for get_user_profile and the cached profile.
C24_CheckAndCommitAtomic ==
    /\ [](/\ Cardinality(Eliciting("github_login")) <= 1
          /\ Cardinality(Eliciting("get_user_profile")) <= 1)
    /\ [][\A i \in Inv :
            /\ (ChecksCache(i, "github_login") /\ github_token # NoToken)
                => /\ pc'[i] = "done"
                   /\ result'[i].kind = "success"
                   /\ result'[i].status = "already_authenticated"
                   /\ peerReqs'[i] = peerReqs[i]
            /\ (ChecksCache(i, "get_user_profile") /\ user_profile # NoProfile)
                => /\ pc'[i] = "done"
                   /\ result'[i].kind = "success"
                   /\ result'[i].status = "cached"
                   /\ peerReqs'[i] = peerReqs[i]]_vars


\* C25: a github_login that finds a token cached issues no elicitation,
\* returns success with status already_authenticated, leaves github_token and
\* user_profile as they were and no longer holds the lock when it returns.
C25_CachedLogin ==
    [][\A i \in Inv :
         (ChecksCache(i, "github_login") /\ github_token # NoToken)
         => /\ pc'[i] = "done"
            /\ peerReqs'[i] = 0
            /\ result'[i].kind = "success"
            /\ result'[i].status = "already_authenticated"
            /\ result'[i].detail = TokenPrefix(github_token)
            /\ github_token' = github_token
            /\ user_profile' = user_profile
            /\ lock'["elicitation"] # i]_vars


\* a token is cached whose 7-byte prefix github_status can report
Authenticated == github_token # NoToken /\ CanSlicePrefix(github_token)

\* invocation i is a github_login that returns status authenticated in this
\* step
LogsIn(i) ==
    /\ Finishes(i) /\ tool[i] = "github_login"
    /\ result'[i].kind = "success" /\ result'[i].status = "authenticated"

\* C26: github_status reports authenticated exactly when a github_login has
\* completed with status authenticated and no github_logout has completed
\* since: the report follows a flag that is off at the start, is switched on
\* only by such a login and off only by a logout.  github_logout always
\* succeeds, clears the token and leaves user_profile unchanged.
C26_StatusFollowsLogin ==
    /\ []((\A i \in Inv : ~(/\ Finished(i) /\ tool[i] = "github_login"
                            /\ result[i].status = "authenticated"))
          => ~Authenticated)
    /\ [][\A i \in Inv :
            /\ LogsIn(i) => Authenticated'
            /\ (Finishes(i) /\ tool[i] = "github_logout")
                => /\ result'[i].kind = "success"
                   /\ github_token' = NoToken
                   /\ ~Authenticated'
                   /\ user_profile' = user_profile
            /\ (Finishes(i) /\ tool[i] = "github_status")
                => /\ result'[i].status = "authenticated" <=> Authenticated
                   /\ github_token' = github_token
            /\ (Authenticated' # Authenticated)
                => \E j \in Inv :
                       LogsIn(j) \/ (Finishes(j) /\ tool[j] = "github_logout")
         ]_vars

C26_Witness ==
    \E a, b \in Inv :
        /\ Finished(a) /\ tool[a] = "github_login"
        /\ result[a].status = "authenticated"
        /\ Finished(b) /\ tool[b] = "github_status"
        /\ result[b].status = "authenticated"


\* invocation i is a get_user_profile that returns an elicited profile in
\* this step
ProfileElicited(i) ==
    /\ Finishes(i) /\ tool[i] = "get_user_profile" /\ pc[i] = "elicit"
    /\ result'[i].kind = "success"

\* C27: get_user_profile elicits exactly when no profile is cached at its
\* check; an answered elicitation caches the elicited name and email and
\* returns them as not cached; a cache hit returns the cached values without
\* eliciting; the cached profile changes only when a profile is elicited or a
\* clear_profile completes, and clear_profile leaves github_token unchanged.
C27_ProfileCache ==
    [][\A i \in Inv :
         /\ ChecksCache(i, "get_user_profile")
             => IF user_profile = NoProfile
                THEN pc'[i] = "elicit" /\ peerReqs'[i] = peerReqs[i] + 1
                ELSE /\ peerReqs'[i] = peerReqs[i]
                     /\ result'[i] = Success("cached", <<user_profile.name,
                                                         user_profile.email>>)
                     /\ user_profile' = user_profile
         /\ ProfileElicited(i)
             => /\ user_profile = NoProfile
                /\ user_profile' \in Profiles
                /\ result'[i] = Success("elicited", <<user_profile'.name,
                                                      user_profile'.email>>)
         /\ (Finishes(i) /\ tool[i] = "clear_profile")
             => /\ result'[i].kind = "success"
                /\ user_profile' = NoProfile
                /\ github_token' = github_token
         /\ user_profile' # user_profile
             => \E j \in Inv :
                    \/ ProfileElicited(j)
                    \/ Finishes(j) /\ tool[j] = "clear_profile"
      ]_vars

C27_Witness ==
    \E a, b \in Inv :
        /\ Finished(a) /\ tool[a] = "get_user_profile"
        /\ result[a].status = "elicited"
        /\ Finished(b) /\ tool[b] = "get_user_profile"
        /\ result[b].status = "cached"
        /\ result[b].detail = result[a].detail
        /\ user_profile = [name |-> "bob", email |-> "bob@example.com"]


\* C28: delete_data returns deleted only for the confirmation DELETE, fails
\* with InvalidParams for any other string and returns cancelled when the
\* elicitation is declined; it issues exactly one elicitation, never takes
\* the state lock and never changes the session state, so a github_login or
\* get_user_profile that holds the lock does not block it.
C28_DeleteConfirmed ==
    /\ [](/\ \A o \in ElicitOutcomes(Confirmations, "", FALSE) :
               /\ DeleteResult(o).status = "deleted"
                      <=> (o.tag = "some" /\ o.val = "DELETE")
               /\ (o.tag = "some" /\ o.val # "DELETE")
                      => DeleteResult(o).kind = "InvalidParams"
               /\ o.tag = "none" => DeleteResult(o) = Success("cancelled", <<>>)
          /\ \A i \in Inv :
               tool[i] = "delete_data"
               => /\ lock["elicitation"] # i
                  /\ pc[i] # "locked"
                  /\ peerReqs[i] = (IF pc[i] \in {"elicit", "done"} THEN 1 ELSE 0)
                  /\ pc[i] = "start" => ENABLED DeleteStart(i)
                  /\ pc[i] = "elicit" => ENABLED DeleteResume(i))
    /\ [][\A i \in Inv :
            /\ (tool[i] = "delete_data" /\ pc'[i] # pc[i])
                => /\ lock' = lock
                   /\ github_token' = github_token
                   /\ user_profile' = user_profile
            /\ (Finishes(i) /\ tool[i] = "delete_data")
                => /\ pc[i] = "elicit"
                   /\ \E o \in ElicitOutcomes(Confirmations, "", FALSE)
                               \cup ElicitOutcomes(Confirmations, "", TRUE) :
                          reply'[i] = o.tag /\ result'[i] = DeleteResult(o)
                   /\ reply'[i] = "none" => result'[i].status = "cancelled"
                   /\ reply'[i] = "some"
                          => result'[i].status = "deleted"
                             \/ result'[i].kind = "InvalidParams"
         ]_vars

C28_Witness ==
    \E a, b \in Inv :
        /\ tool[a] = "github_login" /\ pc[a] = "elicit"
        /\ lock["elicitation"] = a
        /\ tool[b] = "delete_data" /\ Finished(b)
        /\ result[b].status = "deleted" /\ peerReqs[b] = 1


\* C29: send_email elicits exactly when its subject parameter is absent or
\* empty (both deserialize to the empty string); it returns sent only with a
\* non-empty subject, the parameter's or else the elicited one; a declined
\* elicitation and an empty elicited subject fail with InvalidParams.
C29_SubjectElicited ==
    /\ [](/\ \A o \in ElicitOutcomes(Subjects, "", FALSE) :
               IF o.tag = "some" /\ o.val # ""
               THEN SendEmailResult(o) = Success("sent", <<o.val>>)
               ELSE SendEmailResult(o).kind =
                        (IF o.tag = "err" THEN "InternalError"
                         ELSE "InvalidParams")
          /\ \A i \in Inv :
               (Finished(i) /\ tool[i] = "send_email")
               => /\ peerReqs[i] = (IF subject[i] = "" THEN 1 ELSE 0)
                  /\ result[i].status = "sent"
                         => /\ result[i].kind = "success"
                            /\ result[i].detail # <<"">>
                            /\ subject[i] # ""
                                   => result[i].detail = <<subject[i]>>)
    /\ [][\A i \in Inv :
            /\ (tool[i] = "send_email" /\ pc[i] = "start" /\ pc'[i] # "start")
                => IF subject[i] = ""
                   THEN pc'[i] = "elicit" /\ peerReqs'[i] = 1
                   ELSE /\ peerReqs'[i] = 0
                        /\ result'[i] = Success("sent", <<subject[i]>>)
            /\ (Finishes(i) /\ tool[i] = "send_email" /\ pc[i] = "elicit")
                => /\ reply'[i] = "none" => result'[i].kind = "InvalidParams"
                   /\ reply'[i] = "some"
                          => \/ result'[i].kind = "InvalidParams"
                             \/ /\ result'[i].status = "sent"
                                /\ result'[i].detail \in
                                       {<<s>> : s \in Subjects \ {""}}
                   /\ peerReqs'[i] = 1
         ]_vars

C29_Witness ==
    \E a, b \in Inv :
        /\ tool[a] = "send_email" /\ Finished(a) /\ subject[a] = ""
        /\ peerReqs[a] = 1 /\ result[a] = Success("sent", <<"Hello">>)
        /\ tool[b] = "send_email" /\ Finished(b) /\ subject[b] = ""
        /\ reply[b] = "some" /\ result[b].kind = "InvalidParams"


\* C30: github_login stores an elicited token only if it starts with ghp_ or
\* github_pat_; whatever token the user supplies, github_login ends with
\* success or InvalidParams and never aborts, and no later github_status or
\* github_login aborts computing the 7-character prefix of the cached token.
C30_PrefixNeverAborts ==
    /\ github_token # NoToken => ValidTokenFormat(github_token)
    /\ \A i \in Inv :
           (Finished(i) /\ tool[i] \in {"github_login", "github_status"})
           => /\ result[i].kind # "panic"
              /\ (tool[i] = "github_login" /\ reply[i] = "some")
                     => result[i].kind \in {"success", "InvalidParams"}


\* C31: with fair scheduling, fair hand-off of the lock and every peer
\* request answered, declined or failed, no state with a running invocation
\* is a deadlock and every invocation that has started returns a result.
C31_EveryInvocationReturns ==
    /\ []((\E i \in Inv : Running(i))
             => \E i \in Inv : ENABLED (HandlerStep(i) \/ Lock(i)
                                         \/ LoginResume(i) \/ DeleteResume(i)
                                         \/ SendEmailResume(i)
                                         \/ ProfileResume(i)
                                         \/ SamplingResume(i)))
    /\ \A i \in Inv :
           Running(i) ~> (Finished(i) /\ result[i].kind # "panic")


\* invocation j ran a handler of the progress server that counts an operation
CountedProgress(j) ==
    tool[j] \in StreamTools /\ pc[j] \in {"chunk", "final", "done"}

\* invocation i is a get_stats of a calculator server that returns in this
\* step
ReturnsStats(i) ==
    /\ Finishes(i) /\ process \in {"basic", "http"}
    /\ Handled(i) /\ tool[i] = "get_stats"

\* C32: no increment is lost: once every invocation has completed,
\* operation_count of basic_server, http_server and progress_server is the
\* number of counting invocations that ran their handler, and the value
\* get_stats reads never decreases.
C32_NoLostIncrement ==
    /\ []((\A i \in Inv : ~Running(i))
          => /\ operation_count = Cardinality({j \in Inv : CountedProgress(j)})
             /\ process \in {"basic", "http"}
                    => \A k \in sessions :
                           state[k].operation_count
                               = Cardinality({j \in Inv : Counted(j)}))
    /\ [][/\ operation_count' >= operation_count
          /\ \A i, j \in Inv :
                 /\ (/\ Finishes(i) /\ tool[i] = "get_stats"
                     /\ ServerOf(tool[i]) = "progress"
                     /\ Finished(j) /\ tool[j] = "get_stats")
                    => result'[i].n >= result[j].n
                 /\ (/\ ReturnsStats(i)
                     /\ Finished(j) /\ Handled(j) /\ tool[j] = "get_stats")
                    => result'[i].payload.operation_count
                           >= result[j].payload.operation_count]_vars


\* C33: a divide that fails with division by zero leaves the session counters
\* as they were: operation_count (basic_server, http_server) and calc_count
\* (macros_demo_server) are the same after the failed invocation as before.
C33_FailedDivideCountsNothing ==
    [][\A i \in Inv :
          (Finishes(i) /\ ZeroDivide(i)' /\ result'[i].kind = "InvalidParams")
          => \A k \in Sessions :
                 /\ state'[k].operation_count = state[k].operation_count
                 /\ state'[k].calc_count = state[k].calc_count]_vars


\* the server that runs invocation i
ServerRunning(i) ==
    IF request[i].session \in sessions THEN process ELSE ServerOf(tool[i])

\* C34: a tool declared readOnlyHint = true leaves the session state
\* unchanged: no step of an invocation of such a tool changes a field of the
\* state of its server.
C34_ReadOnlyToolsKeepState ==
    [][\A i \in Inv :
          (/\ pc[i] \notin {"idle", "done"} /\ pc'[i] # pc[i]
           /\ tool[i] \in ReadOnlyTools(ServerRunning(i)))
          => /\ state' = state
             /\ UNCHANGED sessionVars]_vars


\* invocation i of basic_server takes a step
BasicStep(i) == process = "basic" /\ pc[i] # "done" /\ pc'[i] # pc[i]

\* C35: in basic_server only the four calculator tools change
\* operation_count, each by exactly 1 per invocation; echo, get_stats,
\* read_resource and the calculation_helper prompt never change it, and echo
\* and the prompt never take the state lock.
C35_OnlyCalculatorsCount ==
    [][\A i \in Inv :
          BasicStep(i)
          => /\ state'[1].operation_count =
                    (IF Finishes(i) /\ Handled(i)'
                        /\ tool'[i] \in ArithmeticTools
                     THEN state[1].operation_count + 1
                     ELSE state[1].operation_count)
             /\ tool'[i] \in {"echo", "calculation_helper"}
                    => pc'[i] = "done" /\ guard'[1] # i]_vars

C35_Witness ==
    \E a, b \in Inv :
        /\ process = "basic"
        /\ Finished(a) /\ tool[a] = "calculator_divide" /\ Handled(a)
        /\ Finished(b) /\ tool[b] = ConfigUri
        /\ result[b].payload.statistics.operation_count = 1
        /\ state[1].operation_count = 1


\* the invocations of macros_demo_server's arithmetic tools that returned
\* success
Calculated ==
    {i \in Inv : /\ process = "macros" /\ Finished(i) /\ Handled(i)
                 /\ tool[i] \in ArithmeticTools
                 /\ result[i].kind = "success"}

\* C36: the calc_count an arithmetic tool of macros_demo_server returns is
\* read in the critical section of its increment: the values returned by the
\* k invocations that have succeeded are pairwise distinct and are exactly
\* 1..k.
C36_CalcCountsDistinct ==
    /\ \A i, j \in Calculated :
           i # j => result[i].payload.calc_count # result[j].payload.calc_count
    /\ {result[i].payload.calc_count : i \in Calculated}
           = 1..Cardinality(Calculated)

C36_Witness ==
    \E i, j \in Calculated :
        /\ tool[i] = "add" /\ result[i].payload.calc_count = 2
        /\ tool[j] = "divide" /\ result[j].payload.calc_count = 1


\* the createMessage requests issued so far
Requested == {i \in Inv : tool[i] \in CreateMessageTools /\ peerReqs[i] > 0}

\* C37: a sampling tool increments sampling_count once and issues one
\* createMessage request, the increment first: sampling_count is never less
\* than the number of requests issued, equals it when no invocation is
\* between its increment and its request, and stays incremented when the
\* request fails.
C37_SamplingCounted ==
    /\ [](/\ sampling_count >= Cardinality(Requested)
          /\ (\A i \in Inv : pc[i] # "locked") =>
                 sampling_count = Cardinality(Requested)
          /\ \A i \in Inv :
                 tool[i] \in SamplingTools
                 => peerReqs[i] =
                        (IF tool[i] \in CreateMessageTools
                            /\ pc[i] \in {"create_message", "done"}
                         THEN 1 ELSE 0))
    /\ [][/\ sampling_count' >= sampling_count
          /\ \A i \in Inv :
                 /\ (tool[i] \in CreateMessageTools /\ pc[i] = "locked"
                     /\ pc'[i] # "locked")
                    => /\ sampling_count' = sampling_count + 1
                       /\ pc'[i] = "create_message"
                 /\ (Finishes(i) /\ tool[i] \in SamplingTools)
                    => sampling_count' = sampling_count]_vars

C37_Witness ==
    \E a, b \in Inv :
        /\ tool[a] = "generate_summary" /\ Finished(a)
        /\ result[a].kind = "InternalError"
        /\ tool[b] = "sampling_get_stats" /\ Finished(b) /\ result[b].n = 1
        /\ sampling_count = 1


\* invocation i of the macros tool t returns from its critical section in
\* this step
CounterStep(i, t) ==
    /\ process = "macros" /\ CalcCall(i, t)
    /\ pc[i] = "locked" /\ Finishes(i)

\* C38: in macros_demo_server the counter is the sum of the amounts of the
\* increments completed since the last reset_counter, without overflow or
\* abort: every increment succeeds and adds its amount, get_counter returns
\* the counter and keeps it, reset_counter reports the value just before the
\* reset as old_value and stores 0, and none of the three changes calc_count.
C38_CounterIsSum ==
    [][\A i \in Inv :
          /\ CounterStep(i, "increment")
              => /\ result'[i].kind = "success"
                 /\ ~OverflowsI32(state[1].counter, Amount(request[i]))
                 /\ state'[1].counter = state[1].counter + Amount(request[i])
                 /\ result'[i].payload.counter = state'[1].counter
                 /\ state'[1].calc_count = state[1].calc_count
          /\ CounterStep(i, "get_counter")
              => /\ result'[i].kind = "success"
                 /\ result'[i].payload.counter = state[1].counter
                 /\ state' = state
          /\ CounterStep(i, "reset_counter")
              => /\ result'[i].kind = "success"
                 /\ result'[i].payload.old_value = state[1].counter
                 /\ result'[i].payload.new_value = 0
                 /\ state'[1].counter = 0
                 /\ state'[1].calc_count = state[1].calc_count]_vars


\* what read_resource returns for uri in a server that has counted nothing
FirstRead(uri) ==
    IF uri = ConfigUri THEN ConfigContents(NewState) ELSE ResourceNotFound(uri)

\* invocation i, a resources/read, returns in this step
ReadReturns(i) == Finishes(i) /\ request'[i].method = "resources/read"

\* C39: readResource is a static lookup: a read of a given URI returns the
\* same result in every reachable state, the contents of 'config://server'
\* being always the same and every other URI being answered with resource
\* not found, and no read changes the state.
C39_StaticLookup ==
    /\ [](\A i \in Inv :
             (Finished(i) /\ request[i].method = "resources/read")
                 => result[i] = FirstRead(tool[i]))
    /\ [][\A i \in Inv : ReadReturns(i) => state' = state]_vars

\* C39 as the code has it: a read of 'config://server' returns the
\* configuration with the operation_count of the state it locks at the time
\* of the read, every other URI is answered with resource not found and its
\* uri, and no read changes the state.
C39_ReadsCurrentCount ==
    [][\A i \in Inv :
          ReadReturns(i)
              => /\ state' = state
                 /\ IF tool'[i] = ConfigUri
                    THEN /\ result'[i].kind = "success"
                         /\ result'[i].payload.statistics.operation_count
                                = state[request'[i].session].operation_count
                    ELSE /\ result'[i].kind = "ResourceNotFound"
                         /\ result'[i].payload.uri = tool'[i]]_vars

\* a read of 'config://server' that reports a calculation made before it
C39_Witness ==
    \E i \in Inv :
        /\ Finished(i) /\ request[i].method = "resources/read"
        /\ tool[i] = ConfigUri
        /\ result[i].payload.statistics.operation_count = 1

=============================================================================
